---- MODULE Spec2Model ----
(***************************************************************************)
(* Model of the wildfire ETL pipeline, src/src/data_collectors/            *)
(* data_pipeline.py (class WildfireDataPipeline): the SQLite store with    *)
(* its three UNIQUE constraints, the three save operations, the weather    *)
(* fetch with its retry loop, weather processing, the risk model and the   *)
(* run_pipeline orchestration.                                             *)
(*                                                                         *)
(* Numbers.  The risk model works on floats; here every factor and the     *)
(* score are exact rationals held as integers over the denominator Scale   *)
(* (a factor of 1.0 is Scale).  Temperature, humidity, wind speed and      *)
(* precipitation are integers, soil moisture is held in tenths.  A JSON    *)
(* null / Python None is <<>> and a present value v is <<v>>.              *)
(***************************************************************************)
EXTENDS Integers, Sequences, FiniteSets, TLC

VARIABLES
    db,                   \* the SQLite file: one row sequence per table
    last_save,            \* the most recent save_* call: table, batch, store before, outcome
    weather_record,       \* argument of the calculate_fire_risk call under study
    risk_record,          \* its return value (<<>> before the call)
    pc,                   \* position of run_pipeline
    connectivity,         \* what test_api_connectivity returned in this run
    runs,                 \* run_pipeline invocations so far
    max_locations,        \* run_pipeline's max_locations argument (0 is None)
    fire_df,              \* run_pipeline: fire_df
    coordinates,          \* run_pipeline: coordinates
    idx,                  \* run_pipeline: position of the for loop in coordinates (1-based)
    attempt,              \* fetch_weather_data: attempt (0-based)
    attempt_log,          \* outcomes of the attempts of the current fetch_weather_data call
    sleeps,               \* waits slept by the current fetch_weather_data call, in seconds
    weather_data,         \* run_pipeline: weather_data, the value fetch_weather_data returned
    weather_records,      \* run_pipeline: weather_records of the current coordinate
    all_weather_records,  \* run_pipeline: all_weather_records
    all_risk_records,     \* run_pipeline: all_risk_records
    successful_requests,  \* run_pipeline: successful_requests
    failed_requests,      \* run_pipeline: failed_requests
    fetch_calls,          \* coordinates fetch_weather_data was called with in this run
    fires_fetched,        \* whether this run called fetch_modis_global_fires
    db_at_start,          \* the store as it was when this run started
    interrupted,          \* whether KeyboardInterrupt was delivered in this run
    run_exit,             \* how the last run ended ("" while running)
    interrupt_at,         \* the position at which KeyboardInterrupt was delivered ("" if none)
    fire_fetch_error,     \* whether fetch_modis_global_fires raised in this run
    writes,               \* the save calls of this run that reached the store, in order
    summary,              \* whether this run logged and printed its final summary
    payload_arg,           \* argument of the process_weather_data call under study
    coord_arg,            \* its latitude and longitude arguments
    processed             \* its return value, wrapped (<<>> before the call)

vars == << db, last_save, weather_record, risk_record, pc, connectivity, runs, max_locations,
           fire_df, coordinates, idx, attempt, attempt_log, sleeps, weather_data,
           weather_records, all_weather_records, all_risk_records,
           successful_requests, failed_requests, fetch_calls, fires_fetched,
           db_at_start, interrupted, run_exit, interrupt_at, fire_fetch_error, writes,
           summary, payload_arg, coord_arg, processed >>

storeVars == << db, last_save >>
riskVars  == << weather_record, risk_record >>
procVars  == << payload_arg, coord_arg, processed >>
pureVars  == << riskVars, procVars >>
runVars   == << pc, connectivity, runs, max_locations, fire_df, coordinates, idx, attempt,
                attempt_log, sleeps, weather_data, weather_records,
                all_weather_records, all_risk_records, successful_requests,
                failed_requests, fetch_calls, fires_fetched, db_at_start,
                interrupted, run_exit, interrupt_at, fire_fetch_error, writes, summary >>

----------------------------------------------------------------------------
(* Bounds of the model *)

MaxRuns  == 2      \* run_pipeline invocations explored
MaxLimit == 1      \* largest max_locations argument explored
MaxSaves == 2      \* direct save_* calls explored in SaveSpec
MaxHours == 2      \* longest hourly time array handed to process_weather_data in ProcSpec
MaxBatch == 2      \* longest batch handed to a direct save_* call

(* Program constants *)

api_delay   == 1   \* self.api_delay = 1.0
max_retries == 3   \* self.max_retries = 3

----------------------------------------------------------------------------
(* Optional values: JSON null / None *)

None    == << >>
Some(v) == << v >>

(* Python's  x or d : d when x is falsy (None, 0, 0.0), else x *)
OrDefault(x, d) == IF x = None \/ x = Some(0) THEN d ELSE x[1]

Min(a, b) == IF a < b THEN a ELSE b
Max(a, b) == IF a > b THEN a ELSE b

RECURSIVE Pow2(_)
Pow2(n) == IF n = 0 THEN 1 ELSE 2 * Pow2(n - 1)

SeqToSet(s) == { s[k] : k \in DOMAIN s }

----------------------------------------------------------------------------
(* Records of the three tables.  Of a detection's columns that no operation  *)
(* of the pipeline reads (scan, track, frp, ...) only brightness is kept.     *)

CoordA == << 34, -118 >>     \* (latitude, longitude) pairs: two points on one parallel
CoordB == << 34, -119 >>

Fire(c, time, b) ==
    [ latitude |-> c[1], longitude |-> c[2], acq_date |-> "2024-07-01",
      acq_time |-> time, satellite |-> "Terra", brightness |-> b ]

Tables == { "active_fires", "weather_data", "fire_risk" }

(* The UNIQUE(...) column lists of init_database *)
NaturalKey(table, row) ==
    CASE table = "active_fires" ->
            << row.latitude, row.longitude, row.acq_date, row.acq_time, row.satellite >>
      [] table = "weather_data" ->
            << row.latitude, row.longitude, row.weather_datetime >>
      [] table = "fire_risk" ->
            << row.latitude, row.longitude, row.calculation_date >>

(* init_database: CREATE TABLE IF NOT EXISTS on a fresh file leaves three empty tables *)
init_database == [ t \in Tables |-> << >> ]

(* SQLite raises IntegrityError when an INSERT repeats the natural key of a stored row *)
UniqueViolationNever(rows, table, row) == FALSE

UniqueViolation(rows, table, row) ==
    \E k \in DOMAIN rows : NaturalKey(table, rows[k]) = NaturalKey(table, row)

(* DataFrame.to_sql(table, conn, if_exists='append'): plain INSERTs of the    *)
(* rows in order inside one transaction.  The first IntegrityError ends the   *)
(* statement; the transaction is rolled back, so no row of the batch stays.   *)
RECURSIVE InsertRows(_, _, _)
InsertRows(rows, table, batch) ==
    IF batch = << >> THEN [ ok |-> TRUE, rows |-> rows ]
    ELSE IF UniqueViolation(rows, table, Head(batch))
         THEN [ ok |-> FALSE, rows |-> rows ]
         ELSE InsertRows(Append(rows, Head(batch)), table, Tail(batch))

(* What the store can do to a save call: nothing, refuse to open              *)
(* (sq.connect raises OperationalError), or fail while writing (to_sql raises) *)
Faults == { "none", "open", "write" }

to_sql(store, table, batch, fault) ==
    LET ins == InsertRows(store[table], table, batch)
    IN  IF fault = "write" \/ ~ins.ok
        THEN [ db |-> store, error |-> TRUE ]
        ELSE [ db |-> [ store EXCEPT ![table] = ins.rows ], error |-> FALSE ]

(* The body shared by save_active_fires, save_weather_data and save_risk_data: *)
(* empty input returns at once; sq.connect is outside the try, so its error    *)
(* reaches the caller; an error of to_sql is caught and logged.                *)
(* Result: the store afterwards, whether the call raised, what it logged.      *)
Save(store, table, batch, fault) ==
    IF batch = << >> THEN [ db |-> store, raised |-> FALSE, logged |-> "nothing_to_save" ]
    ELSE IF fault = "open" THEN [ db |-> store, raised |-> TRUE, logged |-> "" ]
    ELSE LET w == to_sql(store, table, batch, fault)
         IN  [ db |-> w.db, raised |-> FALSE,
               logged |-> IF w.error THEN "error" ELSE "saved" ]

save_active_fires(store, df, fault)    == Save(store, "active_fires", df, fault)
save_weather_data(store, recs, fault)  == Save(store, "weather_data", recs, fault)
save_risk_data(store, recs, fault)     == Save(store, "fire_risk", recs, fault)

----------------------------------------------------------------------------
(* The risk model: calculate_fire_risk *)

Scale == 30 * 100        \* the value 1.0; a common multiple of the divisors 30, 100, 50, 5, 10

(* Inputs after defaulting ( x.get(k, d) or d ).  Soil moisture is in tenths, so 1 is 10. *)
Temp(rec)         == OrDefault(rec.temperature, 0)
Humidity(rec)     == OrDefault(rec.humidity, 100)
WindSpeed(rec)    == OrDefault(rec.wind_speed, 0)
SoilMoisture(rec) == OrDefault(rec.soil_moisture, 10)
Precip(rec)       == OrDefault(rec.precipitation, 0)

(* temp_factor = min(max((temp - 10) / 30, 0), 1) *)
TempFactor(rec)     == Min(Max((Temp(rec) - 10) * (Scale \div 30), 0), Scale)
(* humidity_factor = max((100 - humidity) / 100, 0) *)
HumidityFactor(rec) == Max((100 - Humidity(rec)) * (Scale \div 100), 0)
(* wind_factor = min(wind_speed / 50, 1) *)
WindFactor(rec)     == Min(WindSpeed(rec) * (Scale \div 50), Scale)
(* soil_factor = max((0.5 - soil_moisture) / 0.5, 0) *)
SoilFactor(rec)     == Max((5 - SoilMoisture(rec)) * (Scale \div 5), 0)
(* precip_factor = max((1 - precipitation / 10), 0) *)
PrecipFactor(rec)   == Max((10 - Precip(rec)) * (Scale \div 10), 0)

(* risk_score = 0.25 temp + 0.3 humidity + 0.2 wind + 0.15 soil + 0.1 precip *)
RiskScore(rec) ==
    ( 25 * TempFactor(rec) + 30 * HumidityFactor(rec) + 20 * WindFactor(rec)
      + 15 * SoilFactor(rec) + 10 * PrecipFactor(rec) ) \div 100

(* the if / elif chain on risk_score: thresholds 0.2, 0.4, 0.6, 0.8 *)
RiskLevelClosed(score) ==
    IF score <= Scale \div 5 THEN 1
    ELSE IF score <= (2 * Scale) \div 5 THEN 2
    ELSE IF score <= (3 * Scale) \div 5 THEN 3
    ELSE IF score <= (4 * Scale) \div 5 THEN 4
    ELSE 5

RiskLevel(score) ==
    IF score < Scale \div 5 THEN 1
    ELSE IF score < (2 * Scale) \div 5 THEN 2
    ELSE IF score < (3 * Scale) \div 5 THEN 3
    ELSE IF score < (4 * Scale) \div 5 THEN 4
    ELSE 5

calculate_fire_risk(rec) ==
    [ latitude           |-> rec.latitude,
      longitude          |-> rec.longitude,
      risk_level         |-> RiskLevel(RiskScore(rec)),
      risk_score         |-> RiskScore(rec),
      temperature_factor |-> TempFactor(rec),
      humidity_factor    |-> HumidityFactor(rec),
      wind_factor        |-> WindFactor(rec),
      soil_factor        |-> SoilFactor(rec),
      calculation_date   |-> rec.weather_datetime ]

(* A weather record as process_weather_data builds it *)
Weather(c, time, t, h, w, s, p) ==
    [ latitude |-> c[1], longitude |-> c[2], temperature |-> t, humidity |-> h,
      wind_speed |-> w, wind_direction |-> Some(180), soil_temperature |-> Some(20),
      soil_moisture |-> s, precipitation |-> p, weather_datetime |-> time ]

----------------------------------------------------------------------------
(* Initial state: a constructed WildfireDataPipeline (__init__ ran init_database), *)
(* no run started, no call made.                                                   *)

InitStore ==
    /\ db = init_database
    /\ last_save = [ n |-> 0, table |-> "", batch |-> << >>, before |-> init_database,
                     fault |-> "none", raised |-> FALSE, logged |-> "" ]

NoWeatherRecord == Weather(CoordA, "", None, None, None, None, None)

InitRisk ==
    /\ weather_record = NoWeatherRecord
    /\ risk_record = None

InitRun ==
    /\ pc = "idle"
    /\ connectivity = "untested"
    /\ runs = 0
    /\ max_locations = 0
    /\ fire_df = << >>
    /\ coordinates = << >>
    /\ idx = 1
    /\ attempt = 0
    /\ attempt_log = << >>
    /\ sleeps = << >>
    /\ weather_data = None
    /\ weather_records = << >>
    /\ all_weather_records = << >>
    /\ all_risk_records = << >>
    /\ successful_requests = 0
    /\ failed_requests = 0
    /\ fetch_calls = << >>
    /\ fires_fetched = FALSE
    /\ db_at_start = init_database
    /\ interrupted = FALSE
    /\ run_exit = ""
    /\ interrupt_at = ""
    /\ fire_fetch_error = FALSE
    /\ writes = << >>
    /\ summary = FALSE

NoPayload == [ hourly |-> [ time |-> << >> ] ]

InitProc ==
    /\ payload_arg = NoPayload
    /\ coord_arg = CoordA
    /\ processed = None

Init == InitStore /\ InitRisk /\ InitProc /\ InitRun

----------------------------------------------------------------------------
(* SaveSpec: a caller hands batches to the three save operations directly *)

SeqsUpTo(S, n) == UNION { [ 1..k -> S ] : k \in 0..n }

FireRows ==
    { Fire(CoordA, "0100", 300), Fire(CoordA, "0100", 310), Fire(CoordB, "0100", 300) }

WeatherRows ==
    { Weather(CoordA, "T00", Some(40), Some(20), Some(50), Some(1), Some(0)),
      Weather(CoordA, "T00", Some(10), Some(100), Some(0), Some(10), Some(10)),
      Weather(CoordA, "T01", Some(40), Some(20), Some(50), Some(1), Some(0)) }

RiskRows == { calculate_fire_risk(w) : w \in WeatherRows }

RecordSave(table, batch, fault, r) ==
    /\ db' = r.db
    /\ last_save' = [ n |-> last_save.n + 1, table |-> table, batch |-> batch,
                      before |-> db, fault |-> fault, raised |-> r.raised,
                      logged |-> r.logged ]

CallSaveActiveFires ==
    /\ last_save.n < MaxSaves
    /\ \E batch \in SeqsUpTo(FireRows, MaxBatch), fault \in Faults :
          RecordSave("active_fires", batch, fault, save_active_fires(db, batch, fault))
    /\ UNCHANGED << pureVars, runVars >>

CallSaveWeatherData ==
    /\ last_save.n < MaxSaves
    /\ \E batch \in SeqsUpTo(WeatherRows, MaxBatch), fault \in Faults :
          RecordSave("weather_data", batch, fault, save_weather_data(db, batch, fault))
    /\ UNCHANGED << pureVars, runVars >>

CallSaveRiskData ==
    /\ last_save.n < MaxSaves
    /\ \E batch \in SeqsUpTo(RiskRows, MaxBatch), fault \in Faults :
          RecordSave("fire_risk", batch, fault, save_risk_data(db, batch, fault))
    /\ UNCHANGED << pureVars, runVars >>

SaveNext == CallSaveActiveFires \/ CallSaveWeatherData \/ CallSaveRiskData

SaveSpec == Init /\ [][SaveNext]_vars

----------------------------------------------------------------------------
(* RiskSpec: calculate_fire_risk applied to one weather record *)

RiskTemps    == { None, Some(-5), Some(0), Some(10), Some(25), Some(40), Some(45) }
RiskHumids   == { None, Some(-50), Some(0), Some(50), Some(99), Some(100), Some(150) }
RiskWinds    == { None, Some(-10), Some(0), Some(25), Some(50), Some(60) }
RiskSoils    == { None, Some(-2), Some(0), Some(3), Some(5), Some(10) }
RiskPrecips  == { None, Some(-5), Some(0), Some(5), Some(10), Some(20) }

RiskInit ==
    /\ InitStore /\ InitRun /\ InitProc
    /\ risk_record = None
    /\ \E t \in RiskTemps, h \in RiskHumids, w \in RiskWinds, s \in RiskSoils,
          p \in RiskPrecips :
          weather_record = Weather(CoordA, "T00", t, h, w, s, p)

CallCalculateFireRisk ==
    /\ risk_record = None
    /\ risk_record' = Some(calculate_fire_risk(weather_record))
    /\ UNCHANGED << weather_record, procVars, storeVars, runVars >>

RiskNext == CallCalculateFireRisk

RiskSpec == RiskInit /\ [][RiskNext]_vars

----------------------------------------------------------------------------
(* The two upstream feeds, as the values their calls hand to the pipeline *)

(* fetch_modis_global_fires(url): the parsed CSV, or an exception of          *)
(* requests.get / raise_for_status.  (data_pipeline.py imports the name       *)
(* fetch_modis_global_fires; nasa_firms.py defines the function as            *)
(* fetch_viirs_global_fires.)                                                 *)
FireFrames ==
    { << >>,
      << Fire(CoordA, "0100", 300), Fire(CoordA, "0400", 300), Fire(CoordB, "0100", 300) >>,
      << Fire(CoordB, "0100", 300) >> }

(* The JSON of the weather feed: an hourly object of parallel arrays *)
HourlyFields ==
    << "temperature_2m", "relative_humidity_2m", "wind_speed_10m", "wind_direction_10m",
       "soil_temperature_0cm", "soil_moisture_0_to_1cm", "precipitation" >>

Hourly(times, temps, hums, winds, dirs, stemps, soils, precs) ==
    [ time |-> times, temperature_2m |-> temps, relative_humidity_2m |-> hums,
      wind_speed_10m |-> winds, wind_direction_10m |-> dirs,
      soil_temperature_0cm |-> stemps, soil_moisture_0_to_1cm |-> soils,
      precipitation |-> precs ]

PayloadOne ==
    [ hourly |-> Hourly(<< "T00" >>, << Some(40) >>, << Some(20) >>, << Some(50) >>,
                        << Some(180) >>, << Some(20) >>, << Some(1) >>, << Some(0) >>) ]

PayloadTwo ==
    [ hourly |-> Hourly(<< "T00", "T01" >>, << Some(40), Some(10) >>,
                        << Some(20), Some(100) >>, << Some(50), None >>,
                        << Some(180), Some(180) >>, << Some(20), Some(20) >>,
                        << Some(1), Some(10) >>, << Some(0), Some(10) >>) ]

PayloadShort ==
    [ hourly |-> Hourly(<< "T00", "T01" >>, << Some(40) >>,
                        << Some(20), Some(100) >>, << Some(50), None >>,
                        << Some(180), Some(180) >>, << Some(20), Some(20) >>,
                        << Some(1), Some(10) >>, << Some(0), Some(10) >>) ]

(* "hourly": null in the JSON; None stands for the null, as in the readings *)
PayloadNullHourly == [ hourly |-> None ]

Payloads == { PayloadOne, PayloadTwo, PayloadShort, PayloadNullHourly }

(* test_api_connectivity: True on status 200; False on another status or an exception *)
ProbeResponses == { "status_200", "status_503", "exception" }

test_api_connectivity(response) == response = "status_200"

(* extract_coordinates_from_fires: drop_duplicates on (latitude, longitude) keeps *)
(* the first occurrence of each pair, in order                                    *)
RECURSIVE DropDuplicates(_, _)
DropDuplicates(df, seen) ==
    IF df = << >> THEN << >>
    ELSE LET c == << Head(df).latitude, Head(df).longitude >>
         IN  IF c \in seen THEN DropDuplicates(Tail(df), seen)
             ELSE << c >> \o DropDuplicates(Tail(df), seen \cup { c })

extract_coordinates_keep_all(df) ==
    [ k \in DOMAIN df |-> << df[k].latitude, df[k].longitude >> ]

extract_coordinates_from_fires(df) == DropDuplicates(df, { })

(* coordinates[:max_locations] when max_locations is truthy *)
LimitCoordinates(coords, limit) ==
    IF limit /= 0 THEN SubSeq(coords, 1, Min(limit, Len(coords))) ELSE coords

(* process_weather_data: one record per entry of hourly['time']; a missing key *)
(* (KeyError) or a field array shorter than time (IndexError) gives []         *)
HourlyUsable(hourly) ==
    /\ "time" \in DOMAIN hourly
    /\ Len(hourly.time) > 0 =>
          \A k \in DOMAIN HourlyFields :
              /\ HourlyFields[k] \in DOMAIN hourly
              /\ Len(hourly[HourlyFields[k]]) >= Len(hourly.time)

(* hourly['time'] on a null hourly raises TypeError, which the                 *)
(* except (KeyError, IndexError) of process_weather_data does not catch       *)
ProcessRaisesTypeError(payload) ==
    /\ payload /= None
    /\ "hourly" \in DOMAIN payload[1]
    /\ DOMAIN payload[1].hourly = { }

process_weather_data_first_entry(payload, lat, lon) ==
    IF payload = None \/ "hourly" \notin DOMAIN payload[1] THEN << >>
    ELSE LET hourly == payload[1].hourly
         IN  IF ~HourlyUsable(hourly) THEN << >>
             ELSE [ i \in 1..Min(1, Len(hourly.time)) |->
                      [ latitude         |-> lat,
                        longitude        |-> lon,
                        temperature      |-> hourly.temperature_2m[i],
                        humidity         |-> hourly.relative_humidity_2m[i],
                        wind_speed       |-> hourly.wind_speed_10m[i],
                        wind_direction   |-> hourly.wind_direction_10m[i],
                        soil_temperature |-> hourly.soil_temperature_0cm[i],
                        soil_moisture    |-> hourly.soil_moisture_0_to_1cm[i],
                        precipitation    |-> hourly.precipitation[i],
                        weather_datetime |-> hourly.time[i] ] ]

process_weather_data(payload, lat, lon) ==
    IF payload = None \/ "hourly" \notin DOMAIN payload[1] THEN << >>
    ELSE LET hourly == payload[1].hourly
         IN  IF ~HourlyUsable(hourly) THEN << >>
             ELSE [ i \in 1..Len(hourly.time) |->
                      [ latitude         |-> lat,
                        longitude        |-> lon,
                        temperature      |-> hourly.temperature_2m[i],
                        humidity         |-> hourly.relative_humidity_2m[i],
                        wind_speed       |-> hourly.wind_speed_10m[i],
                        wind_direction   |-> hourly.wind_direction_10m[i],
                        soil_temperature |-> hourly.soil_temperature_0cm[i],
                        soil_moisture    |-> hourly.soil_moisture_0_to_1cm[i],
                        precipitation    |-> hourly.precipitation[i],
                        weather_datetime |-> hourly.time[i] ] ]

(* fetch_weather_data: the ways one attempt fails.  "timeout" is             *)
(* requests.exceptions.Timeout and "http_client_error" the HTTPError that     *)
(* raise_for_status raises on a 4xx status other than 429.  A ConnectionError *)
(* and the error of a 429/500/502/503/504 answer (retried inside the session  *)
(* adapter first) take the path of a timeout: their except clauses only log.  *)
AttemptFailures == { "timeout", "http_client_error" }

(* every except clause of the attempt falls through to the backoff and the next attempt *)
Retried(failure) == TRUE

(* if attempt < self.max_retries - 1: sleep before the retry *)
SleepsAfter(n) == n < max_retries - 1

(* for attempt in range(self.max_retries): another attempt follows attempt n *)
MoreAttemptsUnbounded(n) == TRUE

MoreAttempts(n) == n + 1 < max_retries

(* wait_time = (2 ** attempt) * self.api_delay *)
wait_time_flat(n) == api_delay

wait_time(n) == Pow2(n) * api_delay

----------------------------------------------------------------------------
(* ProcSpec: process_weather_data applied to one payload of the weather feed *)

TimeStamps == << "T00", "T01", "T02", "T03", "T04", "T05" >>

(* an hourly array of n readings; the reading at index i is base + i *)
Readings(n, base) == [ i \in 1..n |-> Some(base + i) ]

(* The hourly object with a time array of n entries, every field array of n    *)
(* entries except temperature_2m and precipitation, whose lengths are given;   *)
(* a length of None leaves the key out of the object                           *)
HourlyOfShape(n, temp_len, precip_len) ==
    LET count(len) == IF len = None THEN 0 ELSE len[1]
        full == Hourly(SubSeq(TimeStamps, 1, n),
                       Readings(count(temp_len), 10), Readings(n, 20),
                       Readings(n, 30), Readings(n, 40), Readings(n, 50),
                       Readings(n, 60), Readings(count(precip_len), 70))
        left_out == (IF temp_len = None THEN { "temperature_2m" } ELSE { })
                       \cup (IF precip_len = None THEN { "precipitation" } ELSE { })
    IN  [ f \in (DOMAIN full) \ left_out |-> full[f] ]

ArrayLengths == { None } \cup { Some(n) : n \in 0..(MaxHours + 1) }

ProcPayloads ==
    { [ hourly |-> HourlyOfShape(n, tl, pl) ] :
         n \in 0..MaxHours, tl \in ArrayLengths, pl \in ArrayLengths }
       \cup { [ error |-> TRUE ], [ hourly |-> [ temperature_2m |-> << >> ] ] }

ProcInit ==
    /\ InitStore /\ InitRisk /\ InitRun
    /\ processed = None
    /\ payload_arg \in ProcPayloads
    /\ coord_arg \in { CoordA, CoordB }

CallProcessWeatherData ==
    /\ processed = None
    /\ processed' = Some(process_weather_data(Some(payload_arg), coord_arg[1], coord_arg[2]))
    /\ UNCHANGED << payload_arg, coord_arg, riskVars, storeVars, runVars >>

ProcNext == CallProcessWeatherData

ProcSpec == ProcInit /\ [][ProcNext]_vars

----------------------------------------------------------------------------
(* run_pipeline, step by step.  The scheduler (scheduler.py) calls it again    *)
(* once the previous call has ended.                                           *)

fetchVars == << attempt, attempt_log, sleeps, weather_data >>
accVars   == << weather_records, all_weather_records, all_risk_records,
                successful_requests, failed_requests >>

(* The final summary (the logger.info / print lines after Step 5) is reached    *)
(* only when the run gets past Step 5; every return and raise before it skips *)
(* it.                                                                        *)
PrintsSummary(how) == how = "completed"

EndRun(how) ==
    /\ pc' = "ended"
    /\ run_exit' = how
    /\ summary' = PrintsSummary(how)

(* What a save call of the run did: its table, the fault it met, whether it    *)
(* raised, and the number of rows it added to the table                        *)
WriteNote(table, store, r, fault) ==
    [ table |-> table, fault |-> fault, raised |-> r.raised,
      added |-> Len(r.db[table]) - Len(store[table]) ]

StartRun ==
    /\ pc \in { "idle", "ended" }
    /\ runs < MaxRuns
    /\ \E limit \in 0..MaxLimit : max_locations' = limit
    /\ runs' = runs + 1
    /\ pc' = "preflight"
    /\ connectivity' = "untested"
    /\ run_exit' = ""
    /\ db_at_start' = db
    /\ fire_df' = << >>
    /\ coordinates' = << >>
    /\ idx' = 1
    /\ attempt' = 0
    /\ attempt_log' = << >>
    /\ sleeps' = << >>
    /\ weather_data' = None
    /\ weather_records' = << >>
    /\ all_weather_records' = << >>
    /\ all_risk_records' = << >>
    /\ successful_requests' = 0
    /\ failed_requests' = 0
    /\ fetch_calls' = << >>
    /\ fires_fetched' = FALSE
    /\ interrupted' = FALSE
    /\ interrupt_at' = ""
    /\ fire_fetch_error' = FALSE
    /\ writes' = << >>
    /\ summary' = FALSE
    /\ UNCHANGED << storeVars, pureVars >>

(* if not self.test_api_connectivity(): ... return *)
PreflightNeverAborts(ok) == FALSE

PreflightAborts(ok) == ~ok

Preflight ==
    /\ pc = "preflight"
    /\ \E response \in ProbeResponses :
          LET ok == test_api_connectivity(response)
          IN  /\ connectivity' = IF ok THEN "passed" ELSE "failed"
              /\ IF PreflightAborts(ok)
                 THEN EndRun("preflight_failed")
                 ELSE pc' = "fetch_fires" /\ UNCHANGED << run_exit, summary >>
    /\ UNCHANGED << storeVars, pureVars, runs, max_locations, fire_df, coordinates,
                    idx, fetchVars, accVars, fetch_calls, fires_fetched, db_at_start,
                    interrupted, interrupt_at, fire_fetch_error, writes >>

(* Step 1: fire_df = fetch_modis_global_fires(...); an exception of the call   *)
(* reaches the outer  except Exception: ... raise ; an empty frame returns     *)
(* except Exception as e: logger.error(...); print(...); raise *)
OnFireFetchErrorReturns == "fetch_failed"

OnFireFetchError == "raised"

FetchFires ==
    /\ pc = "fetch_fires"
    /\ fires_fetched' = TRUE
    /\ \/ /\ fire_fetch_error' = TRUE
          /\ EndRun(OnFireFetchError)
          /\ UNCHANGED fire_df
       \/ \E df \in FireFrames :
             /\ fire_df' = df
             /\ UNCHANGED fire_fetch_error
             /\ IF df = << >> THEN EndRun("no_fires")
                ELSE pc' = "save_fires" /\ UNCHANGED << run_exit, summary >>
    /\ UNCHANGED << connectivity, storeVars, pureVars, runs, max_locations, coordinates, idx,
                    fetchVars, accVars, fetch_calls, db_at_start, interrupted,
                    interrupt_at, writes >>

(* Step 2: self.save_active_fires(fire_df) *)
SaveFires ==
    /\ pc = "save_fires"
    /\ \E fault \in Faults :
          LET r == save_active_fires(db, fire_df, fault)
          IN  /\ db' = r.db
              /\ writes' = Append(writes, WriteNote("active_fires", db, r, fault))
              /\ IF r.raised THEN EndRun("raised")
                 ELSE pc' = "extract" /\ UNCHANGED << run_exit, summary >>
    /\ UNCHANGED << connectivity, last_save, pureVars, runs, max_locations, fire_df, coordinates,
                    idx, fetchVars, accVars, fetch_calls, fires_fetched, db_at_start,
                    interrupted, interrupt_at, fire_fetch_error >>

(* Step 3 and the set-up of Step 4 *)
ExtractCoordinates ==
    /\ pc = "extract"
    /\ coordinates' =
          LimitCoordinates(extract_coordinates_from_fires(fire_df), max_locations)
    /\ idx' = 1
    /\ all_weather_records' = << >>
    /\ all_risk_records' = << >>
    /\ successful_requests' = 0
    /\ failed_requests' = 0
    /\ pc' = "loop"
    /\ UNCHANGED << connectivity, storeVars, pureVars, runs, max_locations, fire_df, fetchVars,
                    weather_records, fetch_calls, fires_fetched, db_at_start,
                    interrupted, run_exit, interrupt_at, fire_fetch_error,
                    writes, summary >>

(* for i, (lat, lon) in enumerate(coordinates): the next coordinate's          *)
(* fetch_weather_data call starts, or the loop is over                         *)
LoopHead ==
    /\ pc = "loop"
    /\ IF idx <= Len(coordinates)
       THEN /\ pc' = "attempt"
            /\ attempt' = 0
            /\ attempt_log' = << >>
            /\ sleeps' = << >>
            /\ weather_data' = None
            /\ fetch_calls' = Append(fetch_calls, coordinates[idx])
       ELSE /\ pc' = "save_weather"
            /\ UNCHANGED << fetchVars, fetch_calls >>
    /\ UNCHANGED << connectivity, storeVars, pureVars, runs, max_locations, fire_df, coordinates,
                    idx, accVars, fires_fetched, db_at_start, interrupted, run_exit,
                    interrupt_at, fire_fetch_error, writes, summary >>

(* one pass of the attempt loop of fetch_weather_data: session.get answers,    *)
(* or fails; after a failure the backoff sleep starts, or the next attempt,    *)
(* or the call returns {}                                                      *)
FetchAttempt ==
    /\ pc = "attempt"
    /\ \/ \E payload \in Payloads :
             /\ attempt_log' = Append(attempt_log, "ok")
             /\ weather_data' = Some(payload)
             /\ pc' = "process"
             /\ UNCHANGED << attempt, sleeps >>
       \/ \E failure \in AttemptFailures :
             /\ attempt_log' = Append(attempt_log, failure)
             /\ UNCHANGED weather_data
             /\ IF ~Retried(failure) THEN pc' = "process" /\ UNCHANGED << attempt, sleeps >>
                ELSE IF SleepsAfter(attempt)
                THEN /\ sleeps' = Append(sleeps, wait_time(attempt))
                     /\ pc' = "backoff"
                     /\ UNCHANGED attempt
                ELSE /\ UNCHANGED sleeps
                     /\ IF MoreAttempts(attempt)
                        THEN pc' = "attempt" /\ attempt' = attempt + 1
                        ELSE pc' = "process" /\ UNCHANGED attempt
    /\ UNCHANGED << connectivity, storeVars, pureVars, runs, max_locations, fire_df, coordinates,
                    idx, accVars, fetch_calls, fires_fetched, db_at_start,
                    interrupted, run_exit, interrupt_at, fire_fetch_error,
                    writes, summary >>

(* time.sleep(wait_time) ends: the next attempt, or the call returns {} *)
BackoffDone ==
    /\ pc = "backoff"
    /\ IF MoreAttempts(attempt)
       THEN pc' = "attempt" /\ attempt' = attempt + 1
       ELSE pc' = "process" /\ UNCHANGED attempt
    /\ UNCHANGED << connectivity, storeVars, pureVars, runs, max_locations, fire_df, coordinates,
                    idx, attempt_log, sleeps, weather_data, accVars, fetch_calls,
                    fires_fetched, db_at_start, interrupted, run_exit, interrupt_at,
                    fire_fetch_error, writes, summary >>

(* fetch_weather_data has returned (its locals are gone).                      *)
(* if weather_data: count, process, extend all_weather_records; else count a  *)
(* failure.  An exception of process_weather_data reaches  except Exception:  *)
(* failed_requests += 1; continue  after successful_requests was incremented. *)
ProcessWeather ==
    /\ pc = "process"
    /\ attempt' = 0
    /\ attempt_log' = << >>
    /\ sleeps' = << >>
    /\ IF weather_data = None
       THEN /\ failed_requests' = failed_requests + 1
            /\ pc' = "delay"
            /\ UNCHANGED << successful_requests, weather_records, all_weather_records,
                            idx >>
       ELSE IF ProcessRaisesTypeError(weather_data)
       THEN /\ successful_requests' = successful_requests + 1
            /\ failed_requests' = failed_requests + 1
            /\ idx' = idx + 1
            /\ pc' = "loop"
            /\ UNCHANGED << weather_records, all_weather_records >>
       ELSE LET recs == process_weather_data(weather_data, coordinates[idx][1],
                                             coordinates[idx][2])
            IN  /\ successful_requests' = successful_requests + 1
                /\ weather_records' = recs
                /\ all_weather_records' = all_weather_records \o recs
                /\ pc' = "risk"
                /\ UNCHANGED << failed_requests, idx >>
    /\ UNCHANGED << connectivity, storeVars, pureVars, runs, max_locations, fire_df, coordinates,
                    weather_data, all_risk_records, fetch_calls, fires_fetched,
                    db_at_start, interrupted, run_exit, interrupt_at, fire_fetch_error,
                    writes, summary >>

(* for weather_record in weather_records: all_risk_records.append(...) *)
CalculateRisksSavingEach ==
    /\ pc = "risk"
    /\ all_risk_records' = all_risk_records \o
          [ k \in DOMAIN weather_records |-> calculate_fire_risk(weather_records[k]) ]
    /\ LET r == save_weather_data(db, weather_records, "none")
       IN  /\ db' = r.db
           /\ writes' = Append(writes, WriteNote("weather_data", db, r, "none"))
    /\ pc' = "delay"
    /\ UNCHANGED << connectivity, last_save, pureVars, runs, max_locations, fire_df, coordinates,
                    idx, fetchVars, weather_records, all_weather_records,
                    successful_requests, failed_requests, fetch_calls, fires_fetched,
                    db_at_start, interrupted, run_exit, interrupt_at, fire_fetch_error,
                    summary >>

CalculateRisks ==
    /\ pc = "risk"
    /\ all_risk_records' = all_risk_records \o
          [ k \in DOMAIN weather_records |-> calculate_fire_risk(weather_records[k]) ]
    /\ pc' = "delay"
    /\ UNCHANGED << connectivity, storeVars, pureVars, runs, max_locations, fire_df, coordinates,
                    idx, fetchVars, weather_records, all_weather_records,
                    successful_requests, failed_requests, fetch_calls, fires_fetched,
                    db_at_start, interrupted, run_exit, interrupt_at, fire_fetch_error,
                    writes, summary >>

(* time.sleep(self.api_delay) ends; the loop moves to the next coordinate *)
CourtesyDelayDone ==
    /\ pc = "delay"
    /\ idx' = idx + 1
    /\ pc' = "loop"
    /\ UNCHANGED << connectivity, storeVars, pureVars, runs, max_locations, fire_df, coordinates,
                    fetchVars, accVars, fetch_calls, fires_fetched, db_at_start,
                    interrupted, run_exit, interrupt_at, fire_fetch_error,
                    writes, summary >>

(* KeyboardInterrupt inside the loop body's try (in session.get, in a sleep,    *)
(* between two statements): it unwinds fetch_weather_data if that is running,  *)
(* then  except KeyboardInterrupt: break                                       *)
KeyboardInterruptInLoop ==
    /\ pc \in { "attempt", "backoff", "risk", "delay" }
    /\ interrupted' = TRUE
    /\ interrupt_at' = pc
    /\ pc' = "save_weather"
    /\ attempt' = 0
    /\ attempt_log' = << >>
    /\ sleeps' = << >>
    /\ UNCHANGED << connectivity, storeVars, pureVars, runs, max_locations, fire_df, coordinates,
                    idx, weather_data, accVars, fetch_calls, fires_fetched,
                    db_at_start, run_exit, fire_fetch_error, writes, summary >>

(* The timeout argument of each network call of a run, in seconds: the probe  *)
(* passes timeout=10, a weather attempt timeout=self.timeout (30), and        *)
(* requests.get(url) of the detection feed passes none                        *)
CallTimeout(call) ==
    CASE call = "preflight"   -> Some(10)
      [] call = "attempt"     -> Some(30)
      [] call = "fetch_fires" -> None

(* A network call without a timeout whose server accepts the connection and   *)
(* never answers: requests waits on the socket for ever; only an interrupt    *)
(* ends the wait.                                                             *)
NetworkCallBlocks ==
    /\ pc \in { "preflight", "fetch_fires", "attempt" }
    /\ CallTimeout(pc) = None
    /\ pc' = "blocked"
    /\ UNCHANGED << connectivity, storeVars, pureVars, runs, max_locations, fire_df, coordinates,
                    idx, fetchVars, accVars, fetch_calls, fires_fetched, db_at_start,
                    interrupted, run_exit, interrupt_at, fire_fetch_error, writes,
                    summary >>

(* KeyboardInterrupt inside the outer try but outside the loop body's try       *)
(* (Steps 1 to 3, the for statement and the logger.info line that opens each   *)
(* iteration, Step 5): the outer  except KeyboardInterrupt  logs, prints       *)
(* "Pipeline stopped by user" and returns; nothing more is saved.  One         *)
(* interrupt per run is explored.                                             *)
KeyboardInterruptOutsideLoopTry ==
    /\ pc \in { "fetch_fires", "blocked", "save_fires", "extract", "loop", "save_weather",
               "save_risk" }
    /\ ~interrupted
    /\ interrupted' = TRUE
    /\ interrupt_at' = pc
    /\ EndRun("stopped")
    /\ UNCHANGED << connectivity, storeVars, pureVars, runs, max_locations, fire_df, coordinates,
                    idx, fetchVars, accVars, fetch_calls, fires_fetched, db_at_start,
                    fire_fetch_error, writes >>

(* Step 5, first half: if all_weather_records: self.save_weather_data(...) *)
SaveWeather ==
    /\ pc = "save_weather"
    /\ IF all_weather_records = << >>
       THEN pc' = "save_risk" /\ UNCHANGED << db, run_exit, summary, writes >>
       ELSE \E fault \in Faults :
               LET r == save_weather_data(db, all_weather_records, fault)
               IN  /\ db' = r.db
                   /\ writes' = Append(writes, WriteNote("weather_data", db, r, fault))
                   /\ IF r.raised THEN EndRun("raised")
                      ELSE pc' = "save_risk" /\ UNCHANGED << run_exit, summary >>
    /\ UNCHANGED << connectivity, last_save, pureVars, runs, max_locations, fire_df, coordinates,
                    idx, fetchVars, accVars, fetch_calls, fires_fetched, db_at_start,
                    interrupted, interrupt_at, fire_fetch_error >>

(* Step 5, second half, and the final summary *)
SaveRisk ==
    /\ pc = "save_risk"
    /\ IF all_risk_records = << >>
       THEN EndRun("completed") /\ UNCHANGED << db, writes >>
       ELSE \E fault \in Faults :
               LET r == save_risk_data(db, all_risk_records, fault)
               IN  /\ db' = r.db
                   /\ writes' = Append(writes, WriteNote("fire_risk", db, r, fault))
                   /\ IF r.raised THEN EndRun("raised") ELSE EndRun("completed")
    /\ UNCHANGED << connectivity, last_save, pureVars, runs, max_locations, fire_df, coordinates,
                    idx, fetchVars, accVars, fetch_calls, fires_fetched, db_at_start,
                    interrupted, interrupt_at, fire_fetch_error >>

Next ==
    \/ StartRun
    \/ Preflight
    \/ FetchFires
    \/ SaveFires
    \/ ExtractCoordinates
    \/ LoopHead
    \/ FetchAttempt
    \/ BackoffDone
    \/ ProcessWeather
    \/ CalculateRisks
    \/ CourtesyDelayDone
    \/ KeyboardInterruptInLoop
    \/ NetworkCallBlocks
    \/ KeyboardInterruptOutsideLoopTry
    \/ SaveWeather
    \/ SaveRisk

Spec == Init /\ [][Next]_vars

----------------------------------------------------------------------------
(* Properties of the save operations (SaveSpec) *)

SavedTable  == last_save.table
SavedBefore == last_save.before[last_save.table]
SavedKeyStored(row) == UniqueViolation(SavedBefore, SavedTable, row)

(* the last save call got a batch with stored keys and with new keys, and the store worked *)
MixedBatchSaved ==
    /\ last_save.n > 0
    /\ last_save.fault = "none"
    /\ \E k \in DOMAIN last_save.batch : SavedKeyStored(last_save.batch[k])
    /\ \E k \in DOMAIN last_save.batch : ~SavedKeyStored(last_save.batch[k])

(* C1: a save of a batch that mixes rows whose natural key is stored with rows *)
(* of new keys inserts the rows of new keys and skips only the conflicting     *)
(* ones: the rows stored before stay as they were, every new-key row is stored *)
(* afterwards, and the call returns.                                           *)
C1_MixedBatchInsertsNewRows ==
    MixedBatchSaved =>
        /\ ~last_save.raised
        /\ Len(db[SavedTable]) >= Len(SavedBefore)
        /\ SubSeq(db[SavedTable], 1, Len(SavedBefore)) = SavedBefore
        /\ \A k \in DOMAIN last_save.batch :
              ~SavedKeyStored(last_save.batch[k]) =>
                  last_save.batch[k] \in SeqToSet(db[SavedTable])

(* the last save call got a batch all of whose rows were stored already, as they are *)
PersistedBatchSavedAgain ==
    /\ last_save.n > 0
    /\ last_save.batch /= << >>
    /\ \A k \in DOMAIN last_save.batch : last_save.batch[k] \in SeqToSet(SavedBefore)

(* C2: persisting again a batch whose rows are all stored leaves the table     *)
(* (and the rest of the store) as it was, row for row, and the save call       *)
(* returns to its caller without raising whenever the store could be opened.   *)
C2_RepeatedBatchLeavesStoreUnchanged ==
    PersistedBatchSavedAgain =>
        /\ db = last_save.before
        /\ Len(db[SavedTable]) = Len(SavedBefore)
        /\ last_save.fault /= "open" => ~last_save.raised

C2_Witness ==
    /\ PersistedBatchSavedAgain
    /\ last_save.fault = "none"
    /\ Len(last_save.batch) = 2
    /\ last_save.logged = "error"
    /\ db[SavedTable] = last_save.batch

----------------------------------------------------------------------------
(* Properties of a run (Spec) *)

Count(seq, x) == Cardinality({ k \in DOMAIN seq : seq[k] = x })

CoordinateOf(row) == << row.latitude, row.longitude >>

(* C3: once test_api_connectivity has returned false, the run has ended, and   *)
(* it made no fetch_weather_data call, did not fetch detections and left the   *)
(* store as it was.                                                            *)
C3_PreflightFailureAbortsRun ==
    connectivity = "failed" =>
        /\ pc = "ended"
        /\ run_exit = "preflight_failed"
        /\ fetch_calls = << >>
        /\ ~fires_fetched
        /\ db = db_at_start

C3_Witness ==
    /\ connectivity = "failed"
    /\ pc = "ended"
    /\ runs = 2
    /\ db_at_start /= init_database

(* the per-coordinate loop of this run ran to its end without KeyboardInterrupt *)
LoopRanToEnd ==
    /\ pc \in { "save_weather", "save_risk" } \/ run_exit = "completed"
    /\ ~interrupted

(* C4: with max_locations unset, fetch_weather_data is never called twice for  *)
(* one (latitude, longitude) pair in a run, and once the loop has run to its   *)
(* end uninterrupted it was called exactly once for each pair occurring in     *)
(* the run's detections and for nothing else.                                  *)
C4_OneFetchPerDistinctCoordinate ==
    max_locations = 0 =>
        /\ \A k \in DOMAIN fetch_calls : Count(fetch_calls, fetch_calls[k]) = 1
        /\ LoopRanToEnd =>
              /\ \A k \in DOMAIN fire_df : Count(fetch_calls, CoordinateOf(fire_df[k])) = 1
              /\ \A k \in DOMAIN fetch_calls :
                    \E j \in DOMAIN fire_df : CoordinateOf(fire_df[j]) = fetch_calls[k]

C4_Witness ==
    /\ max_locations = 0
    /\ run_exit = "completed"
    /\ ~interrupted
    /\ Len(fire_df) = 3
    /\ Count(fire_df, Fire(CoordA, "0100", 300)) = 1
    /\ Count(fire_df, Fire(CoordA, "0400", 300)) = 1
    /\ fetch_calls = << CoordA, CoordB >>

(* C5: a fetch_weather_data call whose attempts 1 and 2 timed out and whose    *)
(* attempt 3 succeeded has returned the payload, and it slept exactly twice,   *)
(* 1 x and then 2 x the base delay (strictly increasing), with no sleep after  *)
(* the last attempt.                                                           *)
C5_BackoffThenSuccess ==
    attempt_log = << "timeout", "timeout", "ok" >> =>
        /\ pc = "process"
        /\ weather_data \in { Some(payload) : payload \in Payloads }
        /\ sleeps = << 1 * api_delay, 2 * api_delay >>
        /\ sleeps[1] < sleeps[2]

C5_Witness ==
    /\ attempt_log = << "timeout", "timeout", "ok" >>
    /\ weather_data = Some(PayloadTwo)
    /\ Len(sleeps) = 2

(* C6: no attempt follows an attempt that failed with a client-class HTTP      *)
(* error (a 4xx status other than 429): such a failure is the last attempt of  *)
(* its fetch_weather_data call.                                                *)
C6_NoRetryAfterClientError ==
    \A k \in 1..(Len(attempt_log) - 1) : attempt_log[k] /= "http_client_error"

AllAttemptsFailed ==
    /\ Len(attempt_log) = 3
    /\ \A k \in DOMAIN attempt_log : attempt_log[k] \in AttemptFailures

(* C7: a fetch_weather_data call makes at most 3 attempts; when 3 attempts     *)
(* have failed, whatever the failures, the call has returned the empty         *)
(* (Unavailable) value to the loop instead of raising, and the loop's next     *)
(* step adds one to failed_requests (and nothing to successful_requests).      *)
C7_ThreeAttemptsThenUnavailable ==
    [][ /\ Len(attempt_log') <= 3
        /\ AllAttemptsFailed' =>
              /\ pc' = "process"
              /\ weather_data' = None
              /\ run_exit' = ""
        /\ (pc = "process" /\ AllAttemptsFailed) =>
              /\ failed_requests' = failed_requests + 1
              /\ successful_requests' = successful_requests
              /\ pc' = "delay" ]_vars

C7_Witness ==
    /\ pc = "delay"
    /\ failed_requests = 2
    /\ successful_requests = 0
    /\ fetch_calls = << CoordA, CoordB >>

----------------------------------------------------------------------------
(* Properties of the risk model (RiskSpec) *)

RiskCalculated == risk_record /= None
Risk == risk_record[1]

AtLeast(x, v) == x /= None /\ x[1] >= v

(* C8: for temperature >= 40, humidity = 0, wind_speed >= 50, soil_moisture = 0 *)
(* and precipitation = 0, calculate_fire_risk returns risk_score = 1.0 and      *)
(* risk_level = 5.                                                              *)
C8_ExtremeWeatherGivesMaximalRisk ==
    ( /\ RiskCalculated
      /\ AtLeast(weather_record.temperature, 40)
      /\ weather_record.humidity = Some(0)
      /\ AtLeast(weather_record.wind_speed, 50)
      /\ weather_record.soil_moisture = Some(0)
      /\ weather_record.precipitation = Some(0) ) =>
        /\ Risk.risk_score = Scale
        /\ Risk.risk_level = 5

InUnitRange(x) == 0 <= x /\ x <= Scale

(* C9: for every weather record, also with values outside their physical range, *)
(* each of the five factors of calculate_fire_risk and the risk_score lie in    *)
(* [0, 1].                                                                      *)
C9_FactorsAndScoreInUnitRange ==
    RiskCalculated =>
        /\ InUnitRange(Risk.temperature_factor)
        /\ InUnitRange(Risk.humidity_factor)
        /\ InUnitRange(Risk.wind_factor)
        /\ InUnitRange(Risk.soil_factor)
        /\ InUnitRange(PrecipFactor(weather_record))
        /\ InUnitRange(Risk.risk_score)

(* scores at, just below and just above every multiple of 0.2 from 0 to 1.2 *)
ProbeScores == { (j * Scale) \div 5 + d : j \in 0..6, d \in { -1, 0, 1 } }

(* C10: the risk level follows from the risk score by the half-open intervals  *)
(* [.., 0.2) -> 1, [0.2, 0.4) -> 2, [0.4, 0.6) -> 3, [0.6, 0.8) -> 4,           *)
(* [0.8, ..) -> 5 with exact boundaries; it is in 1..5 and no lower score gets  *)
(* a higher level.                                                              *)
C10_LevelFollowsHalfOpenIntervals ==
    RiskCalculated =>
        LET score == Risk.risk_score
            level == Risk.risk_level
        IN  /\ level \in 1..5
            /\ level = 1 <=> 5 * score < Scale
            /\ level = 2 <=> (Scale <= 5 * score /\ 5 * score < 2 * Scale)
            /\ level = 3 <=> (2 * Scale <= 5 * score /\ 5 * score < 3 * Scale)
            /\ level = 4 <=> (3 * Scale <= 5 * score /\ 5 * score < 4 * Scale)
            /\ level = 5 <=> 4 * Scale <= 5 * score
            /\ \A other \in ProbeScores :
                  /\ other <= score => RiskLevel(other) <= level
                  /\ other >= score => RiskLevel(other) >= level

C10_Witness ==
    /\ RiskCalculated
    /\ 5 * Risk.risk_score = Scale
    /\ Risk.risk_level = 2

----------------------------------------------------------------------------
(* Properties of process_weather_data (ProcSpec) *)

ProcCalled == processed /= None
Processed  == processed[1]

HasHourlyTime == "hourly" \in DOMAIN payload_arg /\ "time" \in DOMAIN payload_arg.hourly

FieldMissing ==
    \E k \in DOMAIN HourlyFields : HourlyFields[k] \notin DOMAIN payload_arg.hourly

(* some field array is shorter or longer than the time array *)
LengthsDiffer ==
    \E k \in DOMAIN HourlyFields :
        /\ HourlyFields[k] \in DOMAIN payload_arg.hourly
        /\ Len(payload_arg.hourly[HourlyFields[k]]) /= Len(payload_arg.hourly.time)

(* C19: process_weather_data returns the empty list whenever the hourly        *)
(* object lacks an expected field or has a field array whose length differs    *)
(* from the length of the time array, shorter or longer.                       *)
C19_MalformedHourlyGivesNothing ==
    (/\ ProcCalled
     /\ "hourly" \in DOMAIN payload_arg
     /\ ~HasHourlyTime \/ FieldMissing \/ LengthsDiffer) =>
        Processed = << >>

WellFormed == HasHourlyTime /\ ~FieldMissing /\ ~LengthsDiffer

(* C20: for a well-formed hourly object with k timestamps process_weather_data *)
(* returns k records; the i-th record has the i-th timestamp and the i-th      *)
(* reading of every field and carries the latitude and longitude of the call.  *)
C20_OneRecordPerTimestamp ==
    (ProcCalled /\ WellFormed) =>
        LET hourly == payload_arg.hourly
        IN  /\ Len(Processed) = Len(hourly.time)
            /\ \A i \in DOMAIN Processed :
                  /\ Processed[i].weather_datetime = hourly.time[i]
                  /\ Processed[i].latitude = coord_arg[1]
                  /\ Processed[i].longitude = coord_arg[2]
                  /\ Processed[i].temperature = hourly.temperature_2m[i]
                  /\ Processed[i].humidity = hourly.relative_humidity_2m[i]
                  /\ Processed[i].wind_speed = hourly.wind_speed_10m[i]
                  /\ Processed[i].wind_direction = hourly.wind_direction_10m[i]
                  /\ Processed[i].soil_temperature = hourly.soil_temperature_0cm[i]
                  /\ Processed[i].soil_moisture = hourly.soil_moisture_0_to_1cm[i]
                  /\ Processed[i].precipitation = hourly.precipitation[i]

C20_Witness ==
    /\ ProcCalled
    /\ WellFormed
    /\ Len(payload_arg.hourly.time) >= 2
    /\ Len(Processed) >= 2
    /\ coord_arg = CoordB

----------------------------------------------------------------------------
(* Properties of a run's exits and of its writes (Spec) *)

(* every save call of the run met a working store *)
StoreWorked == \A k \in DOMAIN writes : writes[k].fault = "none"

KeyStored(table, row) == UniqueViolation(db[table], table, row)

AllStored(table, recs) == \A k \in DOMAIN recs : KeyStored(table, recs[k])

RunReturned == pc = "ended" /\ run_exit /= "raised"

(* the points of the loop body the interrupt handling is stated for: the       *)
(* weather fetch, a backoff sleep, the processing of the records, the delay    *)
InterruptedInLoopBody == interrupt_at \in { "attempt", "backoff", "risk", "delay" }

(* C11: when KeyboardInterrupt arrived during the weather fetch, a backoff     *)
(* sleep, the record processing or the courtesy delay, and the store worked,   *)
(* the run has, once it has ended, stored every weather record and every risk  *)
(* record it had accumulated.                                                  *)
C11_InterruptKeepsAccumulatedRecords ==
    (pc = "ended" /\ InterruptedInLoopBody /\ StoreWorked) =>
        /\ AllStored("weather_data", all_weather_records)
        /\ AllStored("fire_risk", all_risk_records)

(* C12: every run that has ended has produced the run summary. *)
C12_EveryExitPrintsSummary == pc = "ended" => summary

RiskRowHasWeatherRow(row) ==
    \E j \in DOMAIN db.weather_data :
        NaturalKey("weather_data", db.weather_data[j]) = NaturalKey("fire_risk", row)

(* C14: in every reachable state of the store, every fire_risk row has the     *)
(* latitude, longitude and timestamp of some weather_data row.                 *)
C14_EveryRiskRowHasWeatherRow ==
    \A k \in DOMAIN db.fire_risk : RiskRowHasWeatherRow(db.fire_risk[k])

WritesTo(table) == { k \in DOMAIN writes : writes[k].table = table }

(* the run's save call for the table met a store it could not open or write *)
BatchFailed(table) == \E k \in WritesTo(table) : writes[k].fault /= "none"

(* C15: in an uninterrupted run that has ended, a failed write of the weather  *)
(* batch was followed by the write of the risk batch, a failed write of the    *)
(* detections was followed by the weather fetches of the loop, and the rows    *)
(* stored before the run are still stored.                                     *)
C15_FailedBatchLeavesOthersAttempted ==
    (pc = "ended" /\ ~interrupted) =>
        /\ (BatchFailed("weather_data") /\ all_risk_records /= << >>) =>
              WritesTo("fire_risk") /= { }
        /\ BatchFailed("active_fires") => fetch_calls /= << >>
        /\ \A t \in Tables : SubSeq(db[t], 1, Len(db_at_start[t])) = db_at_start[t]

(* C16: when an uninterrupted run in which a weather fetch failed has ended    *)
(* and the store worked, fetch_weather_data was called for every coordinate    *)
(* of the list, in order, and every weather and risk record of the             *)
(* coordinates that succeeded is stored.                                       *)
C16_FailedCoordinateKeepsLoopAndRecords ==
    (pc = "ended" /\ ~interrupted /\ failed_requests > 0 /\ StoreWorked) =>
        /\ fetch_calls = coordinates
        /\ AllStored("weather_data", all_weather_records)
        /\ AllStored("fire_risk", all_risk_records)

InLoop == pc \in { "loop", "attempt", "backoff", "process", "risk", "delay" }

(* the phase of a table's write: detections, then weather, then risk *)
Phase(table) ==
    CASE table = "active_fires" -> 1
      [] table = "weather_data" -> 2
      [] table = "fire_risk"    -> 3

(* C17: within one run every table is written by at most one save call and    *)
(* the calls come in phase order (detections, weather, risk); the detections   *)
(* were written, as one batch, before the first weather fetch; while the loop  *)
(* iterates only the detections have been written and the weather and risk    *)
(* tables are as they were at the start of the run; weather rows appear only   *)
(* after the loop and risk rows only with the last step of the run.            *)
C17_WritesOnceInPhaseOrder ==
    /\ \A t \in Tables : Cardinality(WritesTo(t)) <= 1
    /\ \A j, k \in DOMAIN writes :
          j < k => Phase(writes[j].table) < Phase(writes[k].table)
    /\ fetch_calls /= << >> =>
          /\ writes /= << >> /\ writes[1].table = "active_fires"
          /\ db.active_fires \in { db_at_start.active_fires,
                                   db_at_start.active_fires \o fire_df }
    /\ InLoop =>
          /\ Len(writes) = 1
          /\ db.weather_data = db_at_start.weather_data
          /\ db.fire_risk = db_at_start.fire_risk
    /\ db.weather_data /= db_at_start.weather_data => pc \in { "save_risk", "ended" }
    /\ db.fire_risk /= db_at_start.fire_risk => pc = "ended"

C17_Witness ==
    /\ run_exit = "completed"
    /\ Len(fetch_calls) = 2
    /\ Len(writes) = 3
    /\ \A k \in DOMAIN writes : writes[k].added > 0

(* the run reached Step 5 or went past it *)
LoopOver == pc \in { "save_weather", "save_risk" } \/ run_exit \in { "completed", "stopped" }

(* C18: once the loop of a run is over, also when an interrupt ended it, the   *)
(* weather buffer and the risk buffer have the same length and the k-th risk   *)
(* record has the latitude, longitude and timestamp of the k-th weather        *)
(* record.                                                                     *)
C18_BuffersMatch ==
    LoopOver =>
        /\ Len(all_risk_records) = Len(all_weather_records)
        /\ \A k \in DOMAIN all_risk_records :
              NaturalKey("fire_risk", all_risk_records[k])
                 = NaturalKey("weather_data", all_weather_records[k])

----------------------------------------------------------------------------
(* Properties of the store under any sequence of save calls (SaveSpec) *)

NoKeyTwice(table) ==
    \A j, k \in DOMAIN db[table] :
        NaturalKey(table, db[table][j]) = NaturalKey(table, db[table][k]) => j = k

(* C21: in every reachable state of the store no two rows of active_fires,     *)
(* of weather_data or of fire_risk have the same natural key.                  *)
C21_NaturalKeysUnique == \A t \in Tables : NoKeyTwice(t)

(* a working store has just rejected a batch, and the table holds several rows *)
C21_Witness ==
    /\ last_save.n >= 2
    /\ last_save.fault = "none"
    /\ last_save.logged = "error"
    /\ Len(db[last_save.table]) >= 2

----------------------------------------------------------------------------
(* Properties of a run's termination and of its counters (Spec) *)

(* C22: no network call of a run waits without a timeout: the run is never     *)
(* left in a call that can only be ended from outside, so it goes on to its    *)
(* completion or abort.                                                        *)
C22_NoNetworkCallBlocks == pc /= "blocked"

(* C23: once the loop of a run has run to its end without an interrupt,        *)
(* successful_requests + failed_requests is the number of coordinates of the   *)
(* run.                                                                        *)
C23_EveryCoordinateCountedOnce ==
    LoopRanToEnd => successful_requests + failed_requests = Len(coordinates)

(* "Saved: {len(all_weather_records)} weather records,                         *)
(*  {len(all_risk_records)} risk calculations" of the final summary            *)
ReportedSaved(table) ==
    CASE table = "weather_data" -> Len(all_weather_records)
      [] table = "fire_risk"    -> Len(all_risk_records)

(* the rows the run has added to the table *)
RowsAdded(table) == Len(db[table]) - Len(db_at_start[table])

(* C24: when a run has produced its summary, the saved-record counts of the    *)
(* summary are the numbers of rows the run added to weather_data and to        *)
(* fire_risk.                                                                  *)
C24_ReportedCountsAreRowsAdded ==
    summary =>
        /\ ReportedSaved("weather_data") = RowsAdded("weather_data")
        /\ ReportedSaved("fire_risk") = RowsAdded("fire_risk")

====
